---- MODULE Spec2Model ----
(***************************************************************************)
(* OpTrack: ticket store (in-memory map + one JSON file per ticket) and    *)
(* the Quay.io status resolver, modelled from src/OpTrack.go.              *)
(***************************************************************************)
EXTENDS Integers, Sequences, FiniteSets, TLC

(***************************************************************************)
(* Bounds of the model.                                                    *)
(***************************************************************************)
MaxIdLen == 3        \* longest repository identifier, in characters
MaxTags == 3         \* longest tag list of a registry response
MaxClock == 3        \* number of time.Now() readings the store may take

(***************************************************************************)
(* Strings of the resolver: an identifier is a sequence of characters.     *)
(***************************************************************************)
Chars == {"n", "/"}

RECURSIVE SeqsUpTo(_, _)
SeqsUpTo(S, n) ==
    IF n = 0 THEN {<<>>}
    ELSE LET shorter == SeqsUpTo(S, n - 1)
         IN  shorter \cup {Append(s, x) : s \in {t \in shorter : Len(t) = n - 1}, x \in S}

Identifiers == SeqsUpTo(Chars, MaxIdLen)

\* strings.Split(operator, "/"): the segments between separators
RECURSIVE SplitFrom(_, _, _)
SplitFrom(s, i, cur) ==
    IF i > Len(s) THEN <<cur>>
    ELSE IF s[i] = "/" THEN <<cur>> \o SplitFrom(s, i + 1, <<>>)
    ELSE SplitFrom(s, i + 1, Append(cur, s[i]))

Split(s) == SplitFrom(s, 1, <<>>)

(***************************************************************************)
(* Timestamps.  An instant is an integer; 0 is Go's zero time.Time         *)
(* (January 1, year 1, 00:00:00 UTC).  The text of last_modified is a      *)
(* layout, a local wall-clock reading and a numeric zone offset.           *)
(***************************************************************************)
ZeroTime == 0

Locals == 0..2
Zones == {0, 1}

TimeTexts ==
    [fmt : {"RFC1123Z"}, local : Locals, zone : Zones]
        \cup {[fmt |-> "ISO8601", local |-> 1, zone |-> 0]}

\* time.Parse(time.RFC1123Z, text): fails on any other layout; the instant
\* is the local reading minus the zone offset
TimeParse(text) ==
    IF text.fmt = "RFC1123Z"
    THEN [err |-> FALSE, t |-> text.local - text.zone]
    ELSE [err |-> TRUE, t |-> ZeroTime]

After(a, b) == a > b
IsZero(t) == t = ZeroTime

(***************************************************************************)
(* Digests: a sequence of tokens, "sha256:" being the algorithm label.     *)
(***************************************************************************)
Digests == {<<>>, <<"sha256:", "ab">>, <<"cd", "sha256:">>}

\* mutant: the label is removed wherever it stands
TrimPrefix_Anywhere(d) == SelectSeq(d, LAMBDA x : x # "sha256:")

\* strings.TrimPrefix(digest, "sha256:")
TrimPrefix(d) == IF Len(d) >= 1 /\ d[1] = "sha256:" THEN Tail(d) ELSE d

(***************************************************************************)
(* Registry responses.                                                     *)
(***************************************************************************)
QuayTagInfo == [Name : {"v"}, LastModified : TimeTexts, ManifestDigest : Digests]

TagLists == SeqsUpTo(QuayTagInfo, MaxTags)

\* What the HTTP exchange with quay.io delivers to one call: how the Get ends
\* (conn), the status code of the response, how ioutil.ReadAll on the body
\* ends (read), whether the body is JSON of the expected shape, and the tags
\* it lists.  "timeout" is the expiry of the client's Timeout, which runs from
\* the start of the Get until the body has been read.  The fields after the
\* first failure say what the exchange would have delivered had it gone on.
ConnOutcomes == {"ok", "refused", "timeout"}
StatusCodes == {200, 204, 404, 500}
ReadOutcomes == {"ok", "reset", "timeout"}

AllOk == [conn |-> "ok", code |-> 200, read |-> "ok", json |-> TRUE, tags |-> <<>>]

FailedResponses ==
    [conn : ConnOutcomes, code : StatusCodes, read : ReadOutcomes, json : BOOLEAN,
     tags : {<<>>}] \ {AllOk}

DecodedResponses ==
    [conn : {"ok"}, code : {200}, read : {"ok"}, json : {TRUE}, tags : TagLists]

Responses == FailedResponses \cup DecodedResponses

NoDigest == <<>>

OperatorStatus(name, lastUpdated, sha, status) ==
    [Name |-> name, LastUpdated |-> lastUpdated, SHA256 |-> sha, Status |-> status]

\* fmt.Sprintf("Quay.io error: %d", resp.StatusCode)
QuayError(code) ==
    CASE code = 204 -> "Quay.io error: 204"
      [] code = 404 -> "Quay.io error: 404"
      [] code = 500 -> "Quay.io error: 500"
      [] OTHER -> "Quay.io error: other"

\* mutant: the scan stops at the first timestamp that does not parse
RECURSIVE ScanTags_StopOnError(_, _, _)
ScanTags_StopOnError(tags, i, acc) ==
    IF i > Len(tags) THEN acc
    ELSE LET parsed == TimeParse(tags[i].LastModified)
         IN  IF parsed.err THEN acc
             ELSE IF parsed.t > acc.latestTime
                  THEN ScanTags_StopOnError(tags, i + 1,
                                [latestTime |-> parsed.t, latestTag |-> tags[i], index |-> i])
                  ELSE ScanTags_StopOnError(tags, i + 1, acc)

\* the loop over tagResponse.Tags: the running (latestTime, latestTag)
RECURSIVE ScanTags(_, _, _)
ScanTags(tags, i, acc) ==
    IF i > Len(tags) THEN acc
    ELSE LET parsed == TimeParse(tags[i].LastModified)
         IN  IF parsed.err THEN ScanTags(tags, i + 1, acc)
             ELSE IF After(parsed.t, acc.latestTime)
                  THEN ScanTags(tags, i + 1,
                                [latestTime |-> parsed.t, latestTag |-> tags[i], index |-> i])
                  ELSE ScanTags(tags, i + 1, acc)

EmptyTag == [Name |-> "", LastModified |-> [fmt |-> "", local |-> 0, zone |-> 0],
             ManifestDigest |-> NoDigest]

ScanStart == [latestTime |-> ZeroTime, latestTag |-> EmptyTag, index |-> 0]

\* mutant: any identifier with a separator is taken as namespace/repository
ValidShape_AtLeastTwo(operator) == Len(Split(operator)) >= 2

\* len(parts) == 2 for parts := strings.Split(operator, "/")
ValidShape(operator) == Len(Split(operator)) = 2

Nil == "nil"

\* return &OperatorStatus{...}, nil: the record, the error, and (for the
\* properties) the number of requests issued to the registry
Returned(status, requests) == [out |-> status, err |-> Nil, requests |-> requests]

\* mutant: the record is "OK" whenever the list has tags, parsed or not
GetOperatorStatus_NoZeroCheck(operator, resp) ==
    IF ~ValidShape(operator)
    THEN Returned(OperatorStatus(operator, ZeroTime, NoDigest,
                                 "Invalid format. Expected: namespace/repository"), 0)
    ELSE IF resp.conn # "ok"
    THEN Returned(OperatorStatus(operator, ZeroTime, NoDigest,
                                 "Failed to connect to Quay.io"), 1)
    ELSE IF resp.code # 200
    THEN Returned(OperatorStatus(operator, ZeroTime, NoDigest, QuayError(resp.code)), 1)
    ELSE IF resp.read # "ok"
    THEN Returned(OperatorStatus(operator, ZeroTime, NoDigest, "Failed to read response"), 1)
    ELSE IF ~resp.json
    THEN Returned(OperatorStatus(operator, ZeroTime, NoDigest,
                                 "Parse error: invalid character"), 1)
    ELSE IF Len(resp.tags) = 0
    THEN Returned(OperatorStatus(operator, ZeroTime, NoDigest, "No tags found"), 1)
    ELSE LET scan == ScanTags(resp.tags, 1, ScanStart)
         IN  Returned(OperatorStatus(operator, scan.latestTime,
                                     TrimPrefix(scan.latestTag.ManifestDigest), "OK"), 1)

\* mutant: the record of a failed connection does not carry the name
GetOperatorStatus_NoName(operator, resp) ==
    IF ~ValidShape(operator)
    THEN Returned(OperatorStatus(operator, ZeroTime, NoDigest,
                                 "Invalid format. Expected: namespace/repository"), 0)
    ELSE IF resp.conn # "ok"
    THEN Returned(OperatorStatus(<<>>, ZeroTime, NoDigest,
                                 "Failed to connect to Quay.io"), 1)
    ELSE IF resp.code # 200
    THEN Returned(OperatorStatus(operator, ZeroTime, NoDigest, QuayError(resp.code)), 1)
    ELSE IF resp.read # "ok"
    THEN Returned(OperatorStatus(operator, ZeroTime, NoDigest, "Failed to read response"), 1)
    ELSE IF ~resp.json
    THEN Returned(OperatorStatus(operator, ZeroTime, NoDigest,
                                 "Parse error: invalid character"), 1)
    ELSE IF Len(resp.tags) = 0
    THEN Returned(OperatorStatus(operator, ZeroTime, NoDigest, "No tags found"), 1)
    ELSE LET scan == ScanTags(resp.tags, 1, ScanStart)
         IN  IF IsZero(scan.latestTime)
             THEN Returned(OperatorStatus(operator, ZeroTime, NoDigest,
                                          "No valid timestamps found"), 1)
             ELSE Returned(OperatorStatus(operator, scan.latestTime,
                                          TrimPrefix(scan.latestTag.ManifestDigest),
                                          "OK"), 1)

\* QuayClient.GetOperatorStatus, given what the registry answers to its Get:
\* the returned record and the number of requests issued to the registry
GetOperatorStatus(operator, resp) ==
    IF ~ValidShape(operator)
    THEN Returned(OperatorStatus(operator, ZeroTime, NoDigest,
                                 "Invalid format. Expected: namespace/repository"), 0)
    ELSE IF resp.conn # "ok"
    THEN Returned(OperatorStatus(operator, ZeroTime, NoDigest,
                                 "Failed to connect to Quay.io"), 1)
    ELSE IF resp.code # 200
    THEN Returned(OperatorStatus(operator, ZeroTime, NoDigest, QuayError(resp.code)), 1)
    ELSE IF resp.read # "ok"
    THEN Returned(OperatorStatus(operator, ZeroTime, NoDigest, "Failed to read response"), 1)
    ELSE IF ~resp.json
    THEN Returned(OperatorStatus(operator, ZeroTime, NoDigest,
                                 "Parse error: invalid character"), 1)
    ELSE IF Len(resp.tags) = 0
    THEN Returned(OperatorStatus(operator, ZeroTime, NoDigest, "No tags found"), 1)
    ELSE LET scan == ScanTags(resp.tags, 1, ScanStart)
         IN  IF IsZero(scan.latestTime)
             THEN Returned(OperatorStatus(operator, ZeroTime, NoDigest,
                                          "No valid timestamps found"), 1)
             ELSE Returned(OperatorStatus(operator, scan.latestTime,
                                          TrimPrefix(scan.latestTag.ManifestDigest),
                                          "OK"), 1)

(***************************************************************************)
(* The ticket store.  A ticket id is a string; it is kept as the sequence  *)
(* of its "/"-separated segments because it becomes part of a file path.   *)
(***************************************************************************)
T1 == <<"T1">>                 \* "T1"
DotT1 == <<".", "T1">>         \* "./T1"
UpT2 == <<"..", "T2">>         \* "../T2"
EmptyId == <<"">>              \* ""

Ids == {T1, DotT1, UpT2}

ValidOp == <<"n", "/", "n">>
InvalidOp == <<"n">>
OpLists == {<<InvalidOp, ValidOp>>, <<ValidOp, ValidOp>>}

Procs == {"p1", "p2"}

\* the "added" field a caller puts in the POST body: a time that is no
\* reading of the store's clock
CallerAdded == {99}

\* a request body: whether it decodes as JSON, and the fields it then carries
Undecodable == [json |-> FALSE, id |-> EmptyId, operators |-> <<>>, added |-> 0]
Bodies == [json : {TRUE}, id : Ids, operators : OpLists, added : CallerAdded] \cup {Undecodable}

\* a request: the handler it is routed to, and the method, the id or ticket
\* query parameter and the body the handler finds in it
Request(kind, method, id, body) == [kind |-> kind, method |-> method, id |-> id, body |-> body]

\* the registry answers used while a status request is being served
MainResponses ==
    { [conn |-> "refused", code |-> 200, read |-> "ok", json |-> TRUE, tags |-> <<>>],
      [conn |-> "ok", code |-> 200, read |-> "ok", json |-> TRUE,
       tags |-> << [Name |-> "v",
                    LastModified |-> [fmt |-> "RFC1123Z", local |-> 1, zone |-> 0],
                    ManifestDigest |-> <<"sha256:", "ab">>] >>] }

\* the ways the client's Timeout can end a call: before the response headers
\* have arrived (the Get returns the error), or while the body is being read
\* (ioutil.ReadAll returns the error)
TimedOut ==
    { [conn |-> "timeout", code |-> 200, read |-> "ok", json |-> TRUE, tags |-> <<>>],
      [conn |-> "ok", code |-> 200, read |-> "timeout", json |-> TRUE, tags |-> <<>>] }

None == "none"
NoReq == [kind |-> None, method |-> None, id |-> EmptyId, body |-> Undecodable]
NoResp == [code |-> 0, body |-> None]
EmptyMap == [x \in {} |-> None]

Put(f, k, v) == [x \in (DOMAIN f) \cup {k} |-> IF x = k THEN v ELSE f[x]]
Drop(f, k) == [x \in (DOMAIN f) \ {k} |-> f[x]]

\* type JiraTicket; a time.Time is its wall-clock instant and whether it
\* still carries the monotonic reading time.Now() attaches
JiraTicket(id, operators, added) == [ID |-> id, Operators |-> operators, Added |-> added]
Now(clock) == [wall |-> clock, mono |-> TRUE]

\* json.MarshalIndent(ticket): the time is written as text, which drops the
\* monotonic reading
Marshal(t) ==
    [json |-> TRUE, id |-> t.ID, operators |-> t.Operators, added |-> t.Added.wall]

\* a file cut short by a failed write: not JSON
Corrupt == [json |-> FALSE, id |-> EmptyId, operators |-> <<>>, added |-> 0]

NoTicket == JiraTicket(EmptyId, <<>>, [wall |-> ZeroTime, mono |-> FALSE])

\* json.Unmarshal(data, &ticket)
Unmarshal(data) ==
    IF ~data.json
    THEN [err |-> TRUE, ticket |-> NoTicket]
    ELSE [err |-> FALSE,
          ticket |-> JiraTicket(data.id, data.operators, [wall |-> data.added, mono |-> FALSE])]

(***************************************************************************)
(* File paths.  A file is [dir, base]: the directory (segments below the   *)
(* working directory) and the base name without its ".json" suffix.        *)
(***************************************************************************)
dataDir == <<"data">>
Dirs == {<<>>, dataDir}

Front(s) == SubSeq(s, 1, Len(s) - 1)
Last(s) == s[Len(s)]

\* filepath.Clean on the directory part of a joined path
RECURSIVE Clean(_, _)
Clean(segs, out) ==
    IF segs = <<>> THEN out
    ELSE IF Head(segs) \in {".", ""} THEN Clean(Tail(segs), out)
    ELSE IF Head(segs) = ".."
         THEN IF out # <<>> /\ Last(out) # ".."
              THEN Clean(Tail(segs), Front(out))
              ELSE Clean(Tail(segs), Append(out, ".."))
    ELSE Clean(Tail(segs), Append(out, Head(segs)))

\* filepath.Join(s.dataDir, ticketID+".json")
FileName(ticketID) ==
    [dir |-> Clean(dataDir \o Front(ticketID), <<>>), base |-> Last(ticketID)]

VARIABLES
    Tickets,     \* AppState.Tickets: ticket id -> JiraTicket
    disk,        \* the file system: file -> content
    mu,          \* AppState.mu: [writer, readers]
    pc,          \* position of each request goroutine
    req,         \* the request each goroutine serves
    ticket,      \* the handler's local ticket
    statuses,    \* handleStatus's local slice
    calls,       \* indices of the operators for which a Get was issued
    resp,        \* what the handler wrote to the ResponseWriter
    pre,         \* the store as it was when the handler took the lock
    now,         \* the clock read by time.Now()
    failed,      \* a durable write or removal has failed since start
    rOperator,   \* resolver: the identifier given to GetOperatorStatus
    rResp,       \* resolver: what the registry answers
    rOut,        \* resolver: the returned *OperatorStatus
    rErr,        \* resolver: the returned error
    rRequests    \* resolver: number of registry requests issued

storeVars == <<Tickets, disk, mu, pc, req, ticket, statuses, calls, resp, pre, now, failed>>
resolverVars == <<rOperator, rResp, rOut, rErr, rRequests>>
vars == <<Tickets, disk, mu, pc, req, ticket, statuses, calls, resp, pre, now, failed,
          rOperator, rResp, rOut, rErr, rRequests>>

\* ioutil.ReadDir(s.dataDir) filtered on the ".json" suffix
JsonFiles(d) == {f \in DOMAIN d : f.dir = dataDir}

\* AppState.loadTicket: the ticket read from a file, under the id taken from
\* the file name
loadTicket(d, f) == Unmarshal(d[f])

\* AppState.loadTickets into an empty map: files that fail to load are skipped
loadTickets(d) ==
    LET ok == {f \in JsonFiles(d) : ~loadTicket(d, f).err}
    IN  [k \in {<<f.base>> : f \in ok} |->
            loadTicket(d, [dir |-> dataDir, base |-> k[1]]).ticket]

\* AppState.saveTicket, when ioutil.WriteFile succeeds
saveTicket(d, t) == Put(d, FileName(t.ID), Marshal(t))

\* what a failing ioutil.WriteFile can leave behind: nothing changed (the
\* open failed) or a truncated file (the write failed)
saveTicketFailures(d, t) ==
    {d} \cup (IF FileName(t.ID).dir \in Dirs THEN {Put(d, FileName(t.ID), Corrupt)} ELSE {})

NoLock == [writer |-> None, readers |-> {}]
NoPre == [Tickets |-> EmptyMap, disk |-> EmptyMap]

StoreInit ==
    /\ disk = EmptyMap
    /\ Tickets = loadTickets(disk)
    /\ mu = NoLock
    /\ pc = [p \in Procs |-> "idle"]
    /\ req = [p \in Procs |-> NoReq]
    /\ ticket = [p \in Procs |-> NoTicket]
    /\ statuses = [p \in Procs |-> <<>>]
    /\ calls = [p \in Procs |-> <<>>]
    /\ resp = [p \in Procs |-> NoResp]
    /\ pre = [p \in Procs |-> NoPre]
    /\ now = 1
    /\ failed = FALSE

\* no record returned yet
NoStatus == [Name |-> <<>>, LastUpdated |-> ZeroTime, SHA256 |-> <<>>, Status |-> None]
DefaultResponse == [conn |-> "refused", code |-> 200, read |-> "ok", json |-> TRUE, tags |-> <<>>]

Init ==
    /\ StoreInit
    /\ rOperator = ValidOp
    /\ rResp = DefaultResponse
    /\ rOut = NoStatus
    /\ rErr = Nil
    /\ rRequests = 0


(***************************************************************************)
(* Requests.  Each goroutine of Procs serves one request at a time.        *)
(***************************************************************************)
Response(code, body) == [code |-> code, body |-> body]

\* a request is routed to handleTickets ("tickets") or handleStatus ("status")
Arrive(p, kind) ==
    /\ pc[p] = "idle"
    /\ req' = [req EXCEPT ![p] = Request(kind, None, EmptyId, Undecodable)]
    /\ pc' = [pc EXCEPT ![p] = IF kind = "tickets" THEN "tk_lock" ELSE "st_start"]
    /\ UNCHANGED <<Tickets, disk, mu, ticket, statuses, calls, resp, pre, now, failed>>
    /\ UNCHANGED resolverVars

\* s.mu.Lock() in handleTickets
Lock(p) ==
    /\ pc[p] = "tk_lock"
    /\ mu.writer = None
    /\ mu.readers = {}
    /\ mu' = [mu EXCEPT !.writer = p]
    /\ pre' = [pre EXCEPT ![p] = [Tickets |-> Tickets, disk |-> disk]]
    /\ pc' = [pc EXCEPT ![p] = "tk_locked"]
    /\ UNCHANGED <<Tickets, disk, req, ticket, statuses, calls, resp, now, failed>>
    /\ UNCHANGED resolverVars

\* json.NewEncoder(w).Encode(s.Tickets)
EncodeTickets(m) == [k \in DOMAIN m |-> Marshal(m[k])]

\* the handler finds the request to be r and answers it
Finish(p, r, answer) ==
    /\ req' = [req EXCEPT ![p] = r]
    /\ resp' = [resp EXCEPT ![p] = answer]
    /\ pc' = [pc EXCEPT ![p] = "tk_ret"]

\* case "GET"
TicketsGet(p) ==
    /\ pc[p] = "tk_locked"
    /\ Finish(p, Request("tickets", "GET", EmptyId, Undecodable),
              Response(200, EncodeTickets(Tickets)))
    /\ UNCHANGED <<Tickets, disk, mu, ticket, statuses, calls, pre, now, failed>>
    /\ UNCHANGED resolverVars

\* a method the switch has no case for
TicketsOther(p) ==
    /\ pc[p] = "tk_locked"
    /\ Finish(p, Request("tickets", "PUT", EmptyId, Undecodable), Response(200, None))
    /\ UNCHANGED <<Tickets, disk, mu, ticket, statuses, calls, pre, now, failed>>
    /\ UNCHANGED resolverVars

\* mutant: the ticket is stored before the decoding error is looked at
PostBadBody_StoresFirst(p) ==
    /\ pc[p] = "tk_locked"
    /\ Tickets' = Put(Tickets, EmptyId, JiraTicket(EmptyId, <<>>, Now(now)))
    /\ Finish(p, Request("tickets", "POST", EmptyId, Undecodable), Response(400, None))
    /\ UNCHANGED <<disk, mu, ticket, statuses, calls, pre, now, failed>>
    /\ UNCHANGED resolverVars

\* case "POST": the body does not decode
PostBadBody(p) ==
    /\ pc[p] = "tk_locked"
    /\ Finish(p, Request("tickets", "POST", EmptyId, Undecodable), Response(400, None))
    /\ UNCHANGED <<Tickets, disk, mu, ticket, statuses, calls, pre, now, failed>>
    /\ UNCHANGED resolverVars

\* the ticket the POST handler stores: ticket.Added = time.Now()
Stamped(body, clock) == JiraTicket(body.id, body.operators, Now(clock))

\* s.Tickets[ticket.ID] = ticket
StoreTicket(m, t) == Put(m, t.ID, t)

\* case "POST": decode, stamp, store in the map
PostStore(p, body) ==
    /\ pc[p] = "tk_locked"
    /\ body.json
    /\ now <= MaxClock
    /\ req' = [req EXCEPT ![p] = Request("tickets", "POST", EmptyId, body)]
    /\ ticket' = [ticket EXCEPT ![p] = Stamped(body, now)]
    /\ now' = now + 1
    /\ Tickets' = StoreTicket(Tickets, Stamped(body, now))
    /\ pc' = [pc EXCEPT ![p] = "post_save"]
    /\ UNCHANGED <<disk, mu, statuses, calls, resp, pre, failed>>
    /\ UNCHANGED resolverVars

\* case "POST": s.saveTicket(ticket) succeeds, the ticket is encoded
PostSaveOk(p) ==
    /\ pc[p] = "post_save"
    /\ FileName(ticket[p].ID).dir \in Dirs
    /\ disk' = saveTicket(disk, ticket[p])
    /\ Finish(p, req[p], Response(200, Marshal(ticket[p])))
    /\ UNCHANGED <<Tickets, mu, ticket, statuses, calls, pre, now, failed>>
    /\ UNCHANGED resolverVars

\* case "POST": s.saveTicket(ticket) fails
PostSaveFail(p) ==
    /\ pc[p] = "post_save"
    /\ disk' \in saveTicketFailures(disk, ticket[p])
    /\ failed' = TRUE
    /\ Finish(p, req[p], Response(500, "Failed to save ticket"))
    /\ UNCHANGED <<Tickets, mu, ticket, statuses, calls, pre, now>>
    /\ UNCHANGED resolverVars

\* case "DELETE": no id in the query
DeleteNoId(p) ==
    /\ pc[p] = "tk_locked"
    /\ Finish(p, Request("tickets", "DELETE", EmptyId, Undecodable), Response(400, None))
    /\ UNCHANGED <<Tickets, disk, mu, ticket, statuses, calls, pre, now, failed>>
    /\ UNCHANGED resolverVars

\* AppState.deleteTicket returning nil: os.Remove succeeded or the file did
\* not exist; the id is deleted from the map
deleteTicket(m, d, ticketID) ==
    [Tickets |-> Drop(m, ticketID), disk |-> Drop(d, FileName(ticketID))]

DeleteOk(p, ticketID) ==
    /\ pc[p] = "tk_locked"
    /\ ticketID # EmptyId
    /\ Tickets' = deleteTicket(Tickets, disk, ticketID).Tickets
    /\ disk' = deleteTicket(Tickets, disk, ticketID).disk
    /\ Finish(p, Request("tickets", "DELETE", ticketID, Undecodable), Response(200, None))
    /\ UNCHANGED <<mu, ticket, statuses, calls, pre, now, failed>>
    /\ UNCHANGED resolverVars

\* AppState.deleteTicket returning the error of os.Remove on an existing file
DeleteFail(p, ticketID) ==
    /\ pc[p] = "tk_locked"
    /\ ticketID # EmptyId
    /\ FileName(ticketID) \in DOMAIN disk
    /\ failed' = TRUE
    /\ Finish(p, Request("tickets", "DELETE", ticketID, Undecodable),
              Response(500, "Failed to delete ticket"))
    /\ UNCHANGED <<Tickets, disk, mu, ticket, statuses, calls, pre, now>>
    /\ UNCHANGED resolverVars

\* the handler returns: the deferred s.mu.Unlock() runs
Return(p) ==
    /\ pc[p] = "tk_ret"
    /\ mu' = [mu EXCEPT !.writer = None]
    /\ pc' = [pc EXCEPT ![p] = "idle"]
    /\ req' = [req EXCEPT ![p] = NoReq]
    /\ ticket' = [ticket EXCEPT ![p] = NoTicket]
    /\ resp' = [resp EXCEPT ![p] = NoResp]
    /\ pre' = [pre EXCEPT ![p] = NoPre]
    /\ UNCHANGED <<Tickets, disk, statuses, calls, now, failed>>
    /\ UNCHANGED resolverVars


(***************************************************************************)
(* handleStatus.                                                           *)
(***************************************************************************)
FinishStatus(p, r) ==
    /\ resp' = [resp EXCEPT ![p] = r]
    /\ pc' = [pc EXCEPT ![p] = "st_ret"]

\* r.Method != "GET"
StatusMethod(p) ==
    /\ pc[p] = "st_start"
    /\ req' = [req EXCEPT ![p] = Request("status", "POST", EmptyId, Undecodable)]
    /\ FinishStatus(p, Response(405, None))
    /\ UNCHANGED <<Tickets, disk, mu, ticket, statuses, calls, pre, now, failed>>
    /\ UNCHANGED resolverVars

\* mutant: the read lock is taken while a writer holds the mutex
RLock_IgnoreWriter(p) ==
    /\ pc[p] = "st_start"
    /\ mu' = [mu EXCEPT !.readers = @ \cup {p}]
    /\ pc' = [pc EXCEPT ![p] = "st_rlocked"]
    /\ UNCHANGED <<Tickets, disk, req, ticket, statuses, calls, resp, pre, now, failed>>
    /\ UNCHANGED resolverVars

\* s.mu.RLock()
RLock(p) ==
    /\ pc[p] = "st_start"
    /\ mu.writer = None
    /\ mu' = [mu EXCEPT !.readers = @ \cup {p}]
    /\ pc' = [pc EXCEPT ![p] = "st_rlocked"]
    /\ UNCHANGED <<Tickets, disk, req, ticket, statuses, calls, resp, pre, now, failed>>
    /\ UNCHANGED resolverVars

\* ticket, exists := s.Tickets[ticketID]; s.mu.RUnlock(); 404 if !exists
Lookup(p, ticketID) ==
    /\ pc[p] = "st_rlocked"
    /\ req' = [req EXCEPT ![p] = Request("status", "GET", ticketID, Undecodable)]
    /\ mu' = [mu EXCEPT !.readers = @ \ {p}]
    /\ pre' = [pre EXCEPT ![p] = [Tickets |-> Tickets, disk |-> disk]]
    /\ IF ticketID \in DOMAIN Tickets
       THEN /\ ticket' = [ticket EXCEPT ![p] = Tickets[ticketID]]
            /\ statuses' = [statuses EXCEPT ![p] = <<>>]
            /\ pc' = [pc EXCEPT ![p] = "st_loop"]
            /\ resp' = resp
       ELSE /\ FinishStatus(p, Response(404, None))
            /\ UNCHANGED <<ticket, statuses>>
    /\ UNCHANGED <<Tickets, disk, calls, now, failed>>
    /\ UNCHANGED resolverVars

\* mutant: the loop reads the operators of the stored ticket, not of its copy
Current_Live(p) ==
    IF req[p].id \in DOMAIN Tickets
    THEN Tickets[req[p].id].Operators[Len(statuses[p]) + 1]
    ELSE ticket[p].Operators[Len(statuses[p]) + 1]

\* the operator the loop of handleStatus is at
Current(p) == ticket[p].Operators[Len(statuses[p]) + 1]

\* status, err := qc.GetOperatorStatus(operator): the record the loop appends
StatusOf(operator, result) ==
    IF result.err # Nil
    THEN OperatorStatus(operator, ZeroTime, NoDigest, "Error: err")
    ELSE result.out

\* loop body: GetOperatorStatus(operator) returns at once on an identifier of
\* invalid shape, otherwise issues its Get and waits for the answer
Resolve(p) ==
    /\ pc[p] = "st_loop"
    /\ Len(statuses[p]) < Len(ticket[p].Operators)
    /\ IF ValidShape(Current(p))
       THEN /\ calls' = [calls EXCEPT ![p] = Append(@, Len(statuses[p]) + 1)]
            /\ pc' = [pc EXCEPT ![p] = "st_call"]
            /\ statuses' = statuses
       ELSE /\ statuses' = [statuses EXCEPT ![p] =
                               Append(@, StatusOf(Current(p),
                                     GetOperatorStatus(Current(p), DefaultResponse)))]
            /\ UNCHANGED <<calls, pc>>
    /\ UNCHANGED <<Tickets, disk, mu, req, ticket, resp, pre, now, failed>>
    /\ UNCHANGED resolverVars

\* mutant: a fetch that failed to connect is tried again
Answer_Retry(p, r) ==
    /\ pc[p] = "st_call"
    /\ statuses' = [statuses EXCEPT ![p] =
                       IF r.conn # "ok" THEN @
                       ELSE Append(@, StatusOf(Current(p), GetOperatorStatus(Current(p), r)))]
    /\ pc' = [pc EXCEPT ![p] = "st_loop"]
    /\ UNCHANGED <<Tickets, disk, mu, req, ticket, calls, resp, pre, now, failed>>
    /\ UNCHANGED resolverVars

\* the exchange with the registry ends as r says; GetOperatorStatus returns
\* and the status is appended
Answer(p, r) ==
    /\ pc[p] = "st_call"
    /\ statuses' = [statuses EXCEPT ![p] =
                       Append(@, StatusOf(Current(p), GetOperatorStatus(Current(p), r)))]
    /\ pc' = [pc EXCEPT ![p] = "st_loop"]
    /\ UNCHANGED <<Tickets, disk, mu, req, ticket, calls, resp, pre, now, failed>>
    /\ UNCHANGED resolverVars

\* the registry has not answered in time: http.Client{Timeout: 10 * time.Second}
\* ends the exchange
Timeout(p, r) ==
    /\ pc[p] = "st_call"
    /\ r \in TimedOut
    /\ statuses' = [statuses EXCEPT ![p] =
                       Append(@, StatusOf(Current(p), GetOperatorStatus(Current(p), r)))]
    /\ pc' = [pc EXCEPT ![p] = "st_loop"]
    /\ UNCHANGED <<Tickets, disk, mu, req, ticket, calls, resp, pre, now, failed>>
    /\ UNCHANGED resolverVars

\* json.NewEncoder(w).Encode(statuses)
Encode(p) ==
    /\ pc[p] = "st_loop"
    /\ Len(statuses[p]) = Len(ticket[p].Operators)
    /\ FinishStatus(p, Response(200, statuses[p]))
    /\ UNCHANGED <<Tickets, disk, mu, req, ticket, statuses, calls, pre, now, failed>>
    /\ UNCHANGED resolverVars

ReturnStatus(p) ==
    /\ pc[p] = "st_ret"
    /\ pc' = [pc EXCEPT ![p] = "idle"]
    /\ req' = [req EXCEPT ![p] = NoReq]
    /\ ticket' = [ticket EXCEPT ![p] = NoTicket]
    /\ statuses' = [statuses EXCEPT ![p] = <<>>]
    /\ calls' = [calls EXCEPT ![p] = <<>>]
    /\ resp' = [resp EXCEPT ![p] = NoResp]
    /\ pre' = [pre EXCEPT ![p] = NoPre]
    /\ UNCHANGED <<Tickets, disk, mu, now, failed>>
    /\ UNCHANGED resolverVars

\* the process stops (at any point) and is started again: NewAppState builds
\* an empty map and loads the data directory
Restart ==
    /\ Tickets' = loadTickets(disk)
    /\ mu' = NoLock
    /\ pc' = [p \in Procs |-> "idle"]
    /\ req' = [p \in Procs |-> NoReq]
    /\ ticket' = [p \in Procs |-> NoTicket]
    /\ statuses' = [p \in Procs |-> <<>>]
    /\ calls' = [p \in Procs |-> <<>>]
    /\ resp' = [p \in Procs |-> NoResp]
    /\ pre' = [p \in Procs |-> NoPre]
    /\ failed' = FALSE
    /\ UNCHANGED <<disk, now>>
    /\ UNCHANGED resolverVars

\* the requests drawn while two goroutines are served concurrently
ConcIds == {T1}
ConcBodies == {b \in Bodies : b.id \in ConcIds}

Next ==
    \/ \E p \in Procs : \E kind \in {"tickets", "status"} : Arrive(p, kind)
    \/ \E p \in Procs : Lock(p)
    \/ \E p \in Procs : TicketsGet(p)
    \/ \E p \in Procs : TicketsOther(p)
    \/ \E p \in Procs : PostBadBody(p)
    \/ \E p \in Procs : \E body \in ConcBodies : PostStore(p, body)
    \/ \E p \in Procs : PostSaveOk(p)
    \/ \E p \in Procs : PostSaveFail(p)
    \/ \E p \in Procs : DeleteNoId(p)
    \/ \E p \in Procs : \E ticketID \in ConcIds : DeleteOk(p, ticketID)
    \/ \E p \in Procs : \E ticketID \in ConcIds : DeleteFail(p, ticketID)
    \/ \E p \in Procs : Return(p)
    \/ \E p \in Procs : StatusMethod(p)
    \/ \E p \in Procs : RLock(p)
    \/ \E p \in Procs : \E ticketID \in ConcIds \cup {UpT2} : Lookup(p, ticketID)
    \/ \E p \in Procs : Resolve(p)
    \/ \E p \in Procs : \E r \in MainResponses : Answer(p, r)
    \/ \E p \in Procs : \E r \in TimedOut : Timeout(p, r)
    \/ \E p \in Procs : Encode(p)
    \/ \E p \in Procs : ReturnStatus(p)
    \/ Restart

Spec == Init /\ [][Next]_vars

(***************************************************************************)
(* One request served at a time, over all the ids and bodies.              *)
(***************************************************************************)
Serving == {"p1"}

NextSerial ==
    \/ \E p \in Serving : \E kind \in {"tickets", "status"} : Arrive(p, kind)
    \/ \E p \in Serving : Lock(p)
    \/ \E p \in Serving : TicketsGet(p)
    \/ \E p \in Serving : TicketsOther(p)
    \/ \E p \in Serving : PostBadBody(p)
    \/ \E p \in Serving : \E body \in Bodies : PostStore(p, body)
    \/ \E p \in Serving : PostSaveOk(p)
    \/ \E p \in Serving : PostSaveFail(p)
    \/ \E p \in Serving : DeleteNoId(p)
    \/ \E p \in Serving : \E ticketID \in Ids : DeleteOk(p, ticketID)
    \/ \E p \in Serving : \E ticketID \in Ids : DeleteFail(p, ticketID)
    \/ \E p \in Serving : Return(p)
    \/ \E p \in Serving : StatusMethod(p)
    \/ \E p \in Serving : RLock(p)
    \/ \E p \in Serving : \E ticketID \in Ids : Lookup(p, ticketID)
    \/ \E p \in Serving : Resolve(p)
    \/ \E p \in Serving : \E r \in MainResponses : Answer(p, r)
    \/ \E p \in Serving : \E r \in TimedOut : Timeout(p, r)
    \/ \E p \in Serving : Encode(p)
    \/ \E p \in Serving : ReturnStatus(p)
    \/ Restart

SpecSerial == Init /\ [][NextSerial]_vars

(***************************************************************************)
(* The same, with the progress the runtime guarantees to a status request: *)
(* the goroutine of handleStatus keeps running, and the timer of the       *)
(* client's Timeout fires when the exchange has not ended before.  Nothing *)
(* is assumed of the registry.                                             *)
(***************************************************************************)
Progress(p) ==
    /\ WF_vars(Resolve(p))
    /\ WF_vars(\E r \in TimedOut : Timeout(p, r))
    /\ WF_vars(Encode(p))

SpecLive == Init /\ [][NextSerial]_vars /\ \A p \in Serving : Progress(p)

(***************************************************************************)
(* The resolver on its own: one call of GetOperatorStatus on an identifier *)
(* and a registry answer drawn from the bounded sets.                      *)
(***************************************************************************)
ResolverInputs ==
    (Identifiers \X FailedResponses) \cup ({ValidOp} \X Responses)

InitResolve ==
    /\ StoreInit
    /\ \E in \in ResolverInputs : rOperator = in[1] /\ rResp = in[2]
    /\ rOut = NoStatus
    /\ rErr = Nil
    /\ rRequests = 0

Call ==
    /\ rOut = NoStatus
    /\ rOut' = GetOperatorStatus(rOperator, rResp).out
    /\ rErr' = GetOperatorStatus(rOperator, rResp).err
    /\ rRequests' = GetOperatorStatus(rOperator, rResp).requests
    /\ UNCHANGED <<rOperator, rResp>>
    /\ UNCHANGED storeVars

NextResolve == Call

SpecResolve == InitResolve /\ [][NextResolve]_vars


(***************************************************************************)
(* Properties of the resolver (SpecResolve).                               *)
(***************************************************************************)
Returns == rOut # NoStatus

\* the response was fetched, read and decoded
Decoded(r) == r.conn = "ok" /\ r.code = 200 /\ r.read = "ok" /\ r.json

Separators(operator) == Cardinality({i \in 1..Len(operator) : operator[i] = "/"})

\* indices of the tags whose timestamp parses, and their instants
Parseable(tags) == {i \in 1..Len(tags) : ~TimeParse(tags[i].LastModified).err}
ParsedAt(tags, i) == TimeParse(tags[i].LastModified).t
MaxParsed(tags) ==
    CHOOSE t \in {ParsedAt(tags, i) : i \in Parseable(tags)} :
        \A j \in Parseable(tags) : t >= ParsedAt(tags, j)
FirstMax(tags) ==
    CHOOSE i \in Parseable(tags) :
        /\ ParsedAt(tags, i) = MaxParsed(tags)
        /\ \A j \in Parseable(tags) : ParsedAt(tags, j) = MaxParsed(tags) => i <= j

NothingPopulated(out) == out.LastUpdated = ZeroTime /\ out.SHA256 = NoDigest

\* C2 as stated: status is "OK" if and only if both last-updated and digest are
\* populated (a parsed timestamp, a non-empty digest) from a tag of a decoded,
\* non-empty tag list; a record that is not "OK" has no timestamp and no digest.
C2_OkIffBothPopulated ==
    Returns =>
        /\ rOut.Status = "OK" <=>
              /\ Decoded(rResp)
              /\ rOut.LastUpdated # ZeroTime
              /\ rOut.SHA256 # NoDigest
              /\ \E i \in Parseable(rResp.tags) :
                    /\ rOut.LastUpdated = ParsedAt(rResp.tags, i)
                    /\ rOut.SHA256 = TrimPrefix(rResp.tags[i].ManifestDigest)
        /\ rOut.Status # "OK" => NothingPopulated(rOut)

\* C2 amended: status is "OK" if and only if last-updated is populated, and
\* then last-updated and digest are those of one tag of the decoded, non-empty
\* tag list, the digest being that tag's manifest digest without its "sha256:"
\* label, empty when the tag carries none; a record that is not "OK" has no
\* timestamp and no digest.
C2_OkIffTimestampPopulated ==
    Returns =>
        /\ rOut.Status = "OK" <=> rOut.LastUpdated # ZeroTime
        /\ rOut.Status = "OK" =>
              /\ Decoded(rResp)
              /\ \E i \in Parseable(rResp.tags) :
                    /\ rOut.LastUpdated = ParsedAt(rResp.tags, i)
                    /\ rOut.SHA256 = TrimPrefix(rResp.tags[i].ManifestDigest)
        /\ rOut.Status # "OK" => NothingPopulated(rOut)

\* an "OK" record whose selected tag carries no digest
C2_Witness == Returns /\ rOut.Status = "OK" /\ rOut.SHA256 = NoDigest

\* C3 as stated: whenever at least one tag of the decoded list has a parseable
\* timestamp, the status is "OK", last-updated is the maximum of the parsed
\* timestamps and the record is that of the lowest-indexed tag carrying it.
C3_LatestOfParseable ==
    (Returns /\ ValidShape(rOperator) /\ Decoded(rResp) /\ Parseable(rResp.tags) # {}) =>
        /\ rOut.Status = "OK"
        /\ rOut.LastUpdated = MaxParsed(rResp.tags)
        /\ rOut.SHA256 = TrimPrefix(rResp.tags[FirstMax(rResp.tags)].ManifestDigest)

\* C9: an identifier without exactly one separator gets the invalid-format
\* record, with its name echoed, no timestamp, no digest, and no registry
\* request is issued.
C9_InvalidFormat ==
    (Returns /\ Separators(rOperator) # 1) =>
        /\ rOut = OperatorStatus(rOperator, ZeroTime, NoDigest,
                                 "Invalid format. Expected: namespace/repository")
        /\ rRequests = 0

\* an identifier with two separators has been resolved
C9_Witness == Returns /\ Separators(rOperator) = 2

\* the tags of a list whose timestamp parses, in their order
RECURSIVE ParseableOnly(_)
ParseableOnly(tags) ==
    IF tags = <<>> THEN <<>>
    ELSE IF TimeParse(Head(tags).LastModified).err THEN ParseableOnly(Tail(tags))
    ELSE <<Head(tags)>> \o ParseableOnly(Tail(tags))

\* C10: for a decoded response, an empty tag list gives "No tags found", a
\* non-empty list none of whose timestamps parses gives "No valid timestamps
\* found", and unparseable tags do not stop the scan: when some timestamp
\* parses the record is the one the list without its unparseable tags gives.
C10_EmptyAndUnparseable ==
    (Returns /\ ValidShape(rOperator) /\ Decoded(rResp)) =>
        /\ Len(rResp.tags) = 0 => rOut.Status = "No tags found"
        /\ (Len(rResp.tags) >= 1 /\ Parseable(rResp.tags) = {}) =>
              rOut.Status = "No valid timestamps found"
        /\ Parseable(rResp.tags) # {} =>
              rOut = GetOperatorStatus(rOperator,
                        [rResp EXCEPT !.tags = ParseableOnly(rResp.tags)]).out

\* an unparseable tag ahead of a parseable one, and the record is "OK"
C10_Witness ==
    /\ Returns
    /\ Decoded(rResp)
    /\ Len(rResp.tags) >= 2
    /\ 1 \notin Parseable(rResp.tags)
    /\ 2 \in Parseable(rResp.tags)
    /\ rOut.Status = "OK"

\* the first stage of a call that fails, "none" when every stage succeeds; a
\* timestamp is valid when it parses
FirstFailure(operator, r) ==
    IF Separators(operator) # 1 THEN "shape"
    ELSE IF r.conn # "ok" THEN "connect"
    ELSE IF r.code # 200 THEN "http"
    ELSE IF r.read # "ok" THEN "read"
    ELSE IF ~r.json THEN "decode"
    ELSE IF Len(r.tags) = 0 THEN "empty"
    ELSE IF Parseable(r.tags) = {} THEN "timestamps"
    ELSE "none"

FailureStatus(stage, r) ==
    CASE stage = "shape" -> "Invalid format. Expected: namespace/repository"
      [] stage = "connect" -> "Failed to connect to Quay.io"
      [] stage = "http" -> QuayError(r.code)
      [] stage = "read" -> "Failed to read response"
      [] stage = "decode" -> "Parse error: invalid character"
      [] stage = "empty" -> "No tags found"
      [] stage = "timestamps" -> "No valid timestamps found"
      [] stage = "none" -> "OK"

Stages == {"shape", "connect", "http", "read", "decode", "empty", "timestamps", "none"}

\* C11 as stated: every call returns one record and no error; the status is
\* the string of the first stage that fails, in the order shape, connect,
\* HTTP status, body read, decode, empty list, no valid timestamp, and "OK"
\* when none fails; the strings of two different stages differ; no request is
\* issued when the shape is invalid and one otherwise.
C11_FirstFailingStage ==
    Returns =>
        /\ rErr = Nil
        /\ rOut.Status = FailureStatus(FirstFailure(rOperator, rResp), rResp)
        /\ \A stage \in Stages \ {FirstFailure(rOperator, rResp)} :
              rOut.Status # FailureStatus(stage, rResp)
        /\ rRequests = (IF FirstFailure(rOperator, rResp) = "shape" THEN 0 ELSE 1)

\* out is d without its leading "sha256:" label, d itself when d has none
Stripped(d, out) ==
    IF d # <<>> /\ Head(d) = "sha256:" THEN d = <<"sha256:">> \o out ELSE out = d

\* C12: on an "OK" record the digest is the manifest digest of the selected
\* tag, the first tag whose parsed timestamp is the returned last-updated,
\* without its "sha256:" label when the digest starts with it and unchanged
\* otherwise.
C12_DigestOfSelectedTag ==
    (Returns /\ rOut.Status = "OK") =>
        \E i \in Parseable(rResp.tags) :
            /\ ParsedAt(rResp.tags, i) = rOut.LastUpdated
            /\ \A j \in Parseable(rResp.tags) :
                  ParsedAt(rResp.tags, j) = rOut.LastUpdated => i <= j
            /\ Stripped(rResp.tags[i].ManifestDigest, rOut.SHA256)

\* the selected tag is the second of the list, its digest carries the label
\* elsewhere than in front, and the first tag has another digest
C12_Witness ==
    /\ Returns
    /\ rOut.Status = "OK"
    /\ Len(rResp.tags) >= 2
    /\ rOut.LastUpdated = ParsedAt(rResp.tags, 2)
    /\ 1 \in Parseable(rResp.tags)
    /\ ParsedAt(rResp.tags, 1) < rOut.LastUpdated
    /\ rResp.tags[1].ManifestDigest = <<"sha256:", "ab">>
    /\ rResp.tags[2].ManifestDigest = <<"cd", "sha256:">>
    /\ rOut.SHA256 = <<"cd", "sha256:">>


(***************************************************************************)
(* Properties of the store and of the handlers.                            *)
(***************************************************************************)
\* the handler of p has answered and is about to return
Answered(p, kind, method) ==
    /\ pc[p] = (IF kind = "tickets" THEN "tk_ret" ELSE "st_ret")
    /\ req[p].kind = kind
    /\ req[p].method = method

\* the entry of a map under a key, None when absent
Entry(m, k) == IF k \in DOMAIN m THEN <<m[k]>> ELSE <<>>

\* C1 as stated: when the durable write of an upsert fails, the map holds for
\* that id what it held before the request, and the caller gets an error.
C1_FailedUpsertLeavesMap ==
    \A p \in Procs :
        (Answered(p, "tickets", "POST") /\ req[p].body.json /\ resp[p].code # 200) =>
            /\ Entry(Tickets, req[p].body.id) = Entry(pre[p].Tickets, req[p].body.id)
            /\ resp[p].code = 500

\* p is between its s.mu.Lock() and the deferred s.mu.Unlock()
Writing(p) == pc[p] \in {"tk_locked", "post_save", "tk_ret"}

\* p is between s.mu.RLock() and s.mu.RUnlock()
Reading(p) == pc[p] = "st_rlocked"

\* C4: a goroutine inside handleTickets' critical section (from its first
\* access to the map until both effects are done) excludes every other
\* writer and every reader.
C4_WriterExcludesAll ==
    \A p \in Procs : \A q \in Procs \ {p} :
        Writing(p) => ~Writing(q) /\ ~Reading(q)

\* a writer has updated the map and not yet the file, while another request
\* waits for the mutex
C4_Witness ==
    \E p \in Procs : \E q \in Procs \ {p} :
        pc[p] = "post_save" /\ pc[q] \in {"tk_lock", "st_start"}

\* t.Equal(u) on the added fields, and equality of the other fields
SameTicket(x, y) ==
    x.ID = y.ID /\ x.Operators = y.Operators /\ x.Added.wall = y.Added.wall

SameTickets(a, b) ==
    DOMAIN a = DOMAIN b /\ \A k \in DOMAIN a : SameTicket(a[k], b[k])

\* C5 as stated: when no request is being served and every upsert and delete
\* so far has succeeded, a restart loads a map equal to the one in memory.
C5_ReloadEqualsMemory ==
    (mu.writer = None /\ ~failed) => SameTickets(loadTickets(disk), Tickets)

\* the file of a ticket id, None when absent
FileOf(d, k) == Entry(d, FileName(k))

\* the tickets other than id, stored before or after the request, are in
\* memory and on disk as before the request
OthersUnchanged(p, id) ==
    \A k \in ((DOMAIN pre[p].Tickets) \cup (DOMAIN Tickets)) \ {id} :
        /\ Entry(Tickets, k) = Entry(pre[p].Tickets, k)
        /\ FileOf(disk, k) = FileOf(pre[p].disk, k)

\* the ids the store holds: in the map, or naming a file of the data directory
StoredIds(m, d) == (DOMAIN m) \cup {<<f.base>> : f \in JsonFiles(d)}

\* C6 as stated: a successful delete leaves the id in neither the map nor the
\* data directory; deleting an id the store does not hold succeeds and leaves
\* every other ticket as it was, in memory and on disk; a second delete of
\* the id changes nothing.
C6_DeleteIdempotent ==
    \A p \in Procs :
        (Answered(p, "tickets", "DELETE") /\ req[p].id # EmptyId) =>
            /\ resp[p].code = 200 =>
                  /\ req[p].id \notin DOMAIN Tickets
                  /\ FileName(req[p].id) \notin DOMAIN disk
                  /\ deleteTicket(Tickets, disk, req[p].id) =
                        [Tickets |-> Tickets, disk |-> disk]
            /\ req[p].id \notin StoredIds(pre[p].Tickets, pre[p].disk) =>
                  /\ resp[p].code = 200
                  /\ OthersUnchanged(p, req[p].id)

\* C7 as stated: after a successful upsert the map holds under the id a record
\* with the id and operators of the request and the time read by the store;
\* that record is the one written to the file and returned; the other
\* tickets are as before, in memory and on disk.
C7_UpsertReplaces ==
    \A p \in Procs :
        (Answered(p, "tickets", "POST") /\ resp[p].code = 200) =>
            /\ req[p].body.id \in DOMAIN Tickets
            /\ Tickets[req[p].body.id] =
                  JiraTicket(req[p].body.id, req[p].body.operators, Now(now - 1))
            /\ FileOf(disk, req[p].body.id) = <<Marshal(Tickets[req[p].body.id])>>
            /\ resp[p].body = Marshal(Tickets[req[p].body.id])
            /\ OthersUnchanged(p, req[p].body.id)

\* C8: a status request for a stored ticket answers 200 with one record per
\* operator, in the ticket's order and named after the operator; for an
\* unknown ticket it answers 404 and no registry request was issued.
C8_StatusPerOperator ==
    \A p \in Procs :
        Answered(p, "status", "GET") =>
            IF req[p].id \in DOMAIN Tickets
            THEN /\ resp[p].code = 200
                 /\ Len(resp[p].body) = Len(Tickets[req[p].id].Operators)
                 /\ \A i \in 1..Len(resp[p].body) :
                       resp[p].body[i].Name = Tickets[req[p].id].Operators[i]
            ELSE /\ resp[p].code = 404
                 /\ calls[p] = <<>>

\* two records returned, the first of a failed resolution, the second "OK"
C8_Witness ==
    \E p \in Procs :
        /\ Answered(p, "status", "GET")
        /\ resp[p].code = 200
        /\ Len(resp[p].body) = 2
        /\ resp[p].body[1].Status = "Failed to connect to Quay.io"
        /\ resp[p].body[2].Status = "OK"


\* the registry calls of p's request that have been issued and whose record
\* has not been produced yet
InFlight(p) == {k \in 1..Len(calls[p]) : calls[p][k] > Len(statuses[p])}

\* C13: within one status request at most one registry call is in flight; the
\* calls are issued in the stored order of the operators, each only after the
\* records of all earlier operators have been produced; an operator gets at
\* most one call, and none when its identifier is invalid; the records are
\* produced in the stored order.
C13_SequentialNoRetry ==
    \A p \in Procs :
        /\ Cardinality(InFlight(p)) <= 1
        /\ (pc[p] = "st_call") <=> (InFlight(p) # {})
        /\ \A k \in 1..Len(calls[p]) :
              /\ calls[p][k] \in 1..Len(ticket[p].Operators)
              /\ calls[p][k] <= Len(statuses[p]) + 1
              /\ Separators(ticket[p].Operators[calls[p][k]]) = 1
              /\ \A l \in 1..Len(calls[p]) : k < l => calls[p][k] < calls[p][l]
        /\ \A i \in 1..Len(statuses[p]) :
              /\ statuses[p][i].Name = ticket[p].Operators[i]
              /\ Separators(ticket[p].Operators[i]) = 1 =>
                    \E k \in 1..Len(calls[p]) : calls[p][k] = i

\* the fetch for the first operator has failed and the call for the second
\* is in flight
C13_Witness ==
    \E p \in Procs :
        /\ pc[p] = "st_call"
        /\ calls[p] = <<1, 2>>
        /\ Len(statuses[p]) = 1
        /\ statuses[p][1].Status = "Failed to connect to Quay.io"


\* the record of the call that has just ended
LastStatus(p) == statuses[p][Len(statuses[p])]

\* C14 as stated: a registry call always ends, and with it the status request
\* (unless the process is stopped first), whatever the registry does; and a
\* call ended by the expiry of the timeout, before the response or while its
\* body is read, gives the record "Failed to connect to Quay.io".
C14_TimeoutIsConnectFailure ==
    /\ \A p \in Serving : (pc[p] = "st_call") ~> (pc[p] # "st_call")
    /\ \A p \in Serving : (pc[p] \in {"st_loop", "st_call"}) ~> (pc[p] \in {"st_ret", "idle"})
    /\ [][\A p \in Serving :
            (\E r \in TimedOut : Timeout(p, r)) =>
                LastStatus(p)' = OperatorStatus(Current(p), ZeroTime, NoDigest,
                                                "Failed to connect to Quay.io")]_vars


\* the map and the data directory are as when the handler took the lock
StoreUntouched(p) == Tickets = pre[p].Tickets /\ disk = pre[p].disk

\* C15: a DELETE without id answers 400, a POST whose body does not decode
\* answers 400, a status request for a ticket the map does not hold answers
\* 404; in each case the map and the data directory are as before the request.
C15_RejectedLeavesStore ==
    \A p \in Procs :
        /\ (Answered(p, "tickets", "DELETE") /\ req[p].id = EmptyId) =>
              resp[p].code = 400 /\ StoreUntouched(p)
        /\ (Answered(p, "tickets", "POST") /\ ~req[p].body.json) =>
              resp[p].code = 400 /\ StoreUntouched(p)
        /\ (Answered(p, "status", "GET") /\ req[p].id \notin DOMAIN pre[p].Tickets) =>
              resp[p].code = 404 /\ StoreUntouched(p)

\* an undecodable POST has been rejected while the store holds a ticket
C15_Witness ==
    \E p \in Procs :
        /\ Answered(p, "tickets", "POST")
        /\ ~req[p].body.json
        /\ resp[p].code = 400
        /\ T1 \in DOMAIN Tickets
        /\ FileName(T1) \in DOMAIN disk

\* C16 as stated: whenever no store operation is in progress, also after
\* failed writes and removals, a reload of the data directory gives the map
\* in memory; a delete whose removal fails answers 500 and leaves the ticket
\* in the map and its file in place; the store then accepts the next request.
C16_MemoryDiskAgreement ==
    /\ mu.writer = None => SameTickets(loadTickets(disk), Tickets)
    /\ \A p \in Procs :
          (Answered(p, "tickets", "DELETE") /\ req[p].id # EmptyId /\ resp[p].code # 200) =>
              resp[p].code = 500 /\ StoreUntouched(p)
    /\ \A p \in Serving :
          (failed /\ pc[p] = "idle") => ENABLED Arrive(p, "tickets")

\* the goroutines inside s.mu: the writer and the readers
Holding(p) == Writing(p) \/ Reading(p)

\* C17: the read lock is held for the lookup only, never while a registry
\* call is in flight, so a writer waits only for a goroutine inside the
\* mutex; the records a status request returns are those of the operators
\* the ticket had at the lookup, whatever is stored under its id since.
C17_SnapshotIsolation ==
    /\ mu.readers = {p \in Procs : pc[p] = "st_rlocked"}
    /\ \A p \in Procs : pc[p] = "st_call" => p \notin mu.readers
    /\ \A q \in Procs :
          (pc[q] = "tk_lock" /\ ~ENABLED Lock(q)) => \E p \in Procs \ {q} : Holding(p)
    /\ \A p \in Procs :
          (Answered(p, "status", "GET") /\ resp[p].code = 200) =>
              /\ req[p].id \in DOMAIN pre[p].Tickets
              /\ Len(resp[p].body) = Len(pre[p].Tickets[req[p].id].Operators)
              /\ \A i \in 1..Len(resp[p].body) :
                    resp[p].body[i].Name = pre[p].Tickets[req[p].id].Operators[i]

\* a status request answers with the records of operators the ticket no
\* longer has, an upsert of the ticket having got in during the resolution
C17_Witness ==
    \E p \in Procs :
        /\ Answered(p, "status", "GET")
        /\ resp[p].code = 200
        /\ req[p].id \in DOMAIN Tickets
        /\ Tickets[req[p].id].Operators # pre[p].Tickets[req[p].id].Operators
        /\ Len(calls[p]) >= 1

====
